---- MODULE Spec2Model ----
(***************************************************************************)
(* State-machine model of the chat server of resident-live-chat            *)
(* (src/unnamed/part_006, the ws-based server with rate limiting and       *)
(* sanitization): the identity map, the rate-limiter map, the ws client    *)
(* set with each socket's readyState, and the handlers of the 'message',   *)
(* 'close' and 'error' events.                                             *)
(*                                                                         *)
(* Text is a sequence of one-character strings, so that trim, replace and  *)
(* substring are computed and not assumed.  A JavaScript value is a record *)
(* tagged with its typeof.                                                 *)
(***************************************************************************)
EXTENDS Integers, Sequences, FiniteSets, TLC

(* ------------------------------ bounds -------------------------------- *)

\* Number of sockets that may connect during a run.
NumConns == 2

\* Events handled in a run (the frames of SpecRate's sender apart).
MaxEvents == 6

\* SpecRate: frames one socket may submit beyond the cap in one rate window.
MaxOver == 2

(* ------------------------- program constants -------------------------- *)

\* (now - state.lastReset) > 10000
WINDOW_MS == 10000

\* state.count >= 30
MAX_COUNT == 30

\* substring(0, 1000)
MAX_LENGTH == 1000

\* name.length >= 2
MIN_NAME_LENGTH == 2

\* client.readyState === 1
OPEN == 1

\* ws: WebSocket.CLOSING and WebSocket.CLOSED follow OPEN
CLOSING == OPEN + 1

CLOSED == OPEN + 2

\* A socket the server has not accepted yet (no WebSocket object exists).
NOSOCKET == 0 - 1

Conns == 1..NumConns

(* ------------------------------- text --------------------------------- *)

Min(a, b) == IF a < b THEN a ELSE b

\* 'x' repeated n times
Repeat(ch, n) == [i \in 1..n |-> ch]

\* String.prototype.trim removes these (the model's whitespace alphabet).
WhiteSpace == {" ", "\t", "\n"}

RECURSIVE TrimStart(_)
TrimStart(s) ==
  IF s # <<>> /\ Head(s) \in WhiteSpace THEN TrimStart(Tail(s)) ELSE s

RECURSIVE TrimEnd(_)
TrimEnd(s) ==
  IF s # <<>> /\ s[Len(s)] \in WhiteSpace
  THEN TrimEnd(SubSeq(s, 1, Len(s) - 1))
  ELSE s

\* str.trim()
Trim(s) == TrimEnd(TrimStart(s))

IsAngle(ch) == ch \in {"<", ">"}

NotAngle(ch) == ~IsAngle(ch)

\* str.replace(/[<>]/g, ''): every '<' and '>' removed
ReplaceAngles(s) == SelectSeq(s, NotAngle)

\* str.substring(0, n)
Substring0(s, n) == SubSeq(s, 1, Min(Len(s), n))

(* -------------------------- JavaScript values ------------------------- *)

JsString(s) == [t |-> "string", v |-> s]

JsUndefined == [t |-> "undefined"]

JsNumber(n) == [t |-> "number", n |-> n]

\* Variant: replace without the g flag removes the first '<' or '>' only.
SanitizeFirstOnly(str) ==
  IF str.t # "string" THEN <<>>
  ELSE LET s == Trim(str.v)
           hit == {i \in 1..Len(s) : IsAngle(s[i])}
           first == IF hit = {} THEN 0
                    ELSE CHOOSE i \in hit : \A j \in hit : i <= j
           r == IF first = 0 THEN s
                ELSE SubSeq(s, 1, first - 1) \o SubSeq(s, first + 1, Len(s))
       IN  Substring0(r, MAX_LENGTH)

\* Variant: the ceiling one character too high.
SanitizeNoTruncate(str) ==
  IF str.t # "string" THEN <<>>
  ELSE Substring0(ReplaceAngles(Trim(str.v)), MAX_LENGTH + 1)

\* typeof str !== 'string' -> '' ; else trim, strip angle brackets, truncate
sanitizeString(str) ==
  IF str.t # "string" THEN <<>>
  ELSE Substring0(ReplaceAngles(Trim(str.v)), MAX_LENGTH)

\* if (name) ... : undefined and '' are falsy
Truthy(x) ==
  CASE x.t = "string" -> x.v # <<>>
    [] x.t = "undefined" -> FALSE
    [] OTHER -> TRUE

(* ------------------------------ clock --------------------------------- *)

\* The values Date.now() takes in a run: both sides of the window's edge.
Times == {0, WINDOW_MS, WINDOW_MS + 1}

\* SpecText: one instant in each of two windows.
CoarseTimes == {0, WINDOW_MS + 1}

(* ------------------------------ origins ------------------------------ *)

\* process.env.CLIENT_ORIGIN_URL || 'http://localhost:4200'
CLIENT_ORIGIN_URL == "http://localhost:4200"

\* info.origin of a connection attempt: the client's page or another one.
Origins == {CLIENT_ORIGIN_URL, "http://elsewhere.example"}

\* No connection attempt yet.
NoOrigin == "none"

\* verifyClient: (info, callback) => { ...; callback(true); }
verifyClient(from) == TRUE

(* ------------------------------ inputs -------------------------------- *)

Text_al == <<"a", "l">>
Text_bo == <<"b", "o">>
Text_hi == <<"h", "i">>

\* JSON.parse(buffer) throws
Garbage == [kind |-> "garbage"]

\* JSON.parse(buffer) returns null
JsonNull == [kind |-> "null"]

\* JSON.parse(buffer) returns a value whose properties are read by name
\* (an object; a number, string or array has none of the three).
Obj(type, username, message) ==
  [kind |-> "object", type |-> type, username |-> username, message |-> message]

JoinFrame(username) == Obj(JsString("join"), username, JsUndefined)

ChatFrame(username, message) == Obj(JsString("chat"), username, message)

\* crypto.randomUUID() draws from these.
Uuids == {"u1", "u2"}

\* Usernames: "al"; " <bo> ", stored as "bo"; "<a>", too short once stripped.
RawNames ==
  { JsString(Text_al),
    JsString(<<" ", "<", "b", "o", ">", " ">>),
    JsString(<<"<", "a", ">">>) }

\* The username a chat frame carries: somebody else's.
Text_eve == <<"e", "v", "e">>

\* Spec: a frame that does not parse, null, the joins, a chat " a<b>< " that
\* claims to be eve's and a chat " <> " that is empty once stripped.
Frames ==
  {Garbage, JsonNull}
  \cup {JoinFrame(n) : n \in RawNames}
  \cup {ChatFrame(JsString(Text_eve), JsString(<<" ", "a", "<", "b", ">", "<", " ">>)),
        ChatFrame(JsUndefined, JsString(<<" ", "<", ">", " ">>))}

\* SpecOrder: a join and a chat
OrderFrames ==
  { JoinFrame(JsString(Text_al)), ChatFrame(JsUndefined, JsString(Text_hi)) }

\* SpecOrigin: a join and a chat
OriginFrames ==
  {JoinFrame(JsString(Text_al)), ChatFrame(JsUndefined, JsString(Text_hi))}

\* SpecRate: a join, a chat, and a frame that is dropped
RateFrames ==
  {Garbage, JoinFrame(JsString(Text_al)),
   ChatFrame(JsUndefined, JsString(Text_hi))}

\* SpecText: texts around the 1000-character ceiling
LongText == Repeat("x", MAX_LENGTH) \o <<"y", "z">>

TextFrames ==
  {JoinFrame(JsString(Text_al)),
   JoinFrame(JsString(<<"<">> \o Repeat("n", MAX_LENGTH) \o <<"m">>)),
   ChatFrame(JsUndefined, JsString(Repeat("x", MAX_LENGTH))),
   ChatFrame(JsUndefined, JsString(<<" ", "<">> \o LongText \o <<">", " ">>)),
   ChatFrame(JsUndefined, JsString(Repeat("x", MAX_LENGTH - 1) \o <<">", "y", "z">>))}

(* ------------------------------- state -------------------------------- *)

VARIABLES
  readyState,                  \* socket.readyState of each socket
  clients,                     \* webSocketServerHost.clients, in insertion order
  origin,                      \* info.origin of each socket's upgrade request
  connectedClientIdentityMap,  \* Map socket -> name, entries in insertion order
  socketRateLimiterState,      \* Map socket -> {count, lastReset}
  now,                         \* Date.now()
  crashed,                     \* the process died of an uncaught exception
  sent,                        \* the sends of the last handler, in order
  event,                       \* the last event handled
  lastUsers,                   \* history: the last 'users' payload each socket got
  recentChats,                 \* history: chats broadcast per sender in (now - 10 s, now]
  hist,                        \* history: each socket's frames since its window opened
  attached,                    \* history: the sockets that hold an identity, as they got it
  journal,                     \* history: chats accepted and heard, removals run
  handled,                     \* history: the events handled so far (counted frames apart)
  client                       \* the browser's service and component, and its link

vars ==
  <<readyState, clients, origin, connectedClientIdentityMap,
    socketRateLimiterState, now, crashed, sent, event, lastUsers, recentChats,
    hist, attached, journal, handled, client>>

\* The server's part of the state, the event count apart.
serverState ==
  <<readyState, clients, origin, connectedClientIdentityMap,
    socketRateLimiterState, now, crashed, sent, event, lastUsers, recentChats,
    hist, attached, journal>>

(* ----------------------------- Map model ------------------------------ *)

MapHas(m, k) == \E i \in 1..Len(m) : m[i].socket = k

MapIndex(m, k) == CHOOSE i \in 1..Len(m) : m[i].socket = k

\* Map.prototype.get: the value, or undefined
MapGet(m, k) ==
  IF MapHas(m, k) THEN JsString(m[MapIndex(m, k)].name) ELSE JsUndefined

\* Map.prototype.set: an existing key keeps its place
MapSet(m, k, v) ==
  IF MapHas(m, k)
  THEN [m EXCEPT ![MapIndex(m, k)].name = v]
  ELSE Append(m, [socket |-> k, name |-> v])

MapDelete(m, k) == SelectSeq(m, LAMBDA e : e.socket # k)

\* Variant: a name that two sockets hold is listed once.
MapValuesDeduplicated(m) ==
  LET first == SelectSeq([i \in 1..Len(m) |-> i],
                         LAMBDA i : \A j \in 1..(i - 1) : m[j].name # m[i].name)
  IN  [k \in 1..Len(first) |-> m[first[k]].name]

\* Array.from(map.values())
MapValues(m) == [i \in 1..Len(m) |-> m[i].name]

LimiterSet(m, k, v) == [x \in (DOMAIN m) \cup {k} |-> IF x = k THEN v ELSE m[x]]

LimiterDelete(m, k) == [x \in (DOMAIN m) \ {k} |-> m[x]]

(* ----------------------------- payloads ------------------------------- *)

UsersPayload(users) == [type |-> "users", users |-> users]

\* `${name} joined the conversation.`: the name, then the fixed words
SystemPayload(name, words, timestamp) ==
  [type |-> "system", message |-> <<name, words>>, timestamp |-> timestamp]

ChatPayload(id, username, message, timestamp) ==
  [type |-> "chat", id |-> id, username |-> username, message |-> message,
   timestamp |-> timestamp]

(* ----------------------------- broadcast ------------------------------ *)

\* One send per entry: [to |-> socket, payload |-> the JSON text's content].
\* JSON.stringify runs once, so every recipient gets the same text.

\* Variant: the payload is built again for each recipient, so that the
\* timestamp of a later recipient is later.
BroadcastStampsEach(rs, cl, payloadObject) ==
  LET open == SelectSeq(cl, LAMBDA c : rs[c] = OPEN)
  IN  [i \in 1..Len(open) |->
         [to |-> open[i],
          payload |-> IF "timestamp" \in DOMAIN payloadObject
                      THEN [payloadObject EXCEPT !.timestamp = @ + i - 1]
                      ELSE payloadObject]]

\* Variant: no test of readyState, every client of the set is sent to.
BroadcastIgnoresState(rs, cl, payloadObject) ==
  [i \in 1..Len(cl) |-> [to |-> cl[i], payload |-> payloadObject]]

\* Variant: only the sockets that hold an identity are sent to.
BroadcastToJoined(rs, cl, payloadObject) ==
  LET open == SelectSeq(cl, LAMBDA c :
                              rs[c] = OPEN /\ MapHas(connectedClientIdentityMap, c))
  IN  [i \in 1..Len(open) |-> [to |-> open[i], payload |-> payloadObject]]

\* clients.forEach(client => { if (client.readyState === 1) client.send(...) })
\* with the readyState and client set of the moment of the call
broadcast(rs, cl, payloadObject) ==
  LET open == SelectSeq(cl, LAMBDA c : rs[c] = OPEN)
  IN  [i \in 1..Len(open) |-> [to |-> open[i], payload |-> payloadObject]]

(* ---------------------------- rate limiter ---------------------------- *)

\* Variant: count > 30 where the code has count >= 30.
CheckRateLimitOffByOne(socket) ==
  LET m == socketRateLimiterState IN
  IF socket \notin DOMAIN m \/ (now - m[socket].lastReset) > WINDOW_MS
  THEN [ok |-> TRUE,
        limiter |-> LimiterSet(m, socket, [count |-> 1, lastReset |-> now])]
  ELSE IF m[socket].count > MAX_COUNT
  THEN [ok |-> FALSE, limiter |-> m]
  ELSE [ok |-> TRUE,
        limiter |-> [m EXCEPT ![socket].count = m[socket].count + 1]]

\* Variant: a frame over the limit restarts the wait.
CheckRateLimitPenalty(socket) ==
  LET m == socketRateLimiterState IN
  IF socket \notin DOMAIN m \/ (now - m[socket].lastReset) > WINDOW_MS
  THEN [ok |-> TRUE,
        limiter |-> LimiterSet(m, socket, [count |-> 1, lastReset |-> now])]
  ELSE IF m[socket].count >= MAX_COUNT
  THEN [ok |-> FALSE, limiter |-> [m EXCEPT ![socket].lastReset = now]]
  ELSE [ok |-> TRUE,
        limiter |-> [m EXCEPT ![socket].count = m[socket].count + 1]]

\* Variant: the window ends at 10000 ms, not after.
CheckRateLimitResetsAtEdge(socket) ==
  LET m == socketRateLimiterState IN
  IF socket \notin DOMAIN m \/ (now - m[socket].lastReset) >= WINDOW_MS
  THEN [ok |-> TRUE,
        limiter |-> LimiterSet(m, socket, [count |-> 1, lastReset |-> now])]
  ELSE IF m[socket].count >= MAX_COUNT
  THEN [ok |-> FALSE, limiter |-> m]
  ELSE [ok |-> TRUE,
        limiter |-> [m EXCEPT ![socket].count = m[socket].count + 1]]

\* Variant: a new window starts at count 0.
CheckRateLimitCountsFromZero(socket) ==
  LET m == socketRateLimiterState IN
  IF socket \notin DOMAIN m \/ (now - m[socket].lastReset) > WINDOW_MS
  THEN [ok |-> TRUE,
        limiter |-> LimiterSet(m, socket, [count |-> 0, lastReset |-> now])]
  ELSE IF m[socket].count >= MAX_COUNT
  THEN [ok |-> FALSE, limiter |-> m]
  ELSE [ok |-> TRUE,
        limiter |-> [m EXCEPT ![socket].count = m[socket].count + 1]]

\* Variant: every frame that passes restarts the window.
CheckRateLimitSliding(socket) ==
  LET m == socketRateLimiterState IN
  IF socket \notin DOMAIN m \/ (now - m[socket].lastReset) > WINDOW_MS
  THEN [ok |-> TRUE,
        limiter |-> LimiterSet(m, socket, [count |-> 1, lastReset |-> now])]
  ELSE IF m[socket].count >= MAX_COUNT
  THEN [ok |-> FALSE, limiter |-> m]
  ELSE [ok |-> TRUE,
        limiter |-> [m EXCEPT ![socket] =
                       [count |-> m[socket].count + 1, lastReset |-> now]]]

\* checkRateLimit(socket): whether the frame passes, and the map afterwards
checkRateLimit(socket) ==
  LET m == socketRateLimiterState IN
  IF socket \notin DOMAIN m \/ (now - m[socket].lastReset) > WINDOW_MS
  THEN [ok |-> TRUE,
        limiter |-> LimiterSet(m, socket, [count |-> 1, lastReset |-> now])]
  ELSE IF m[socket].count >= MAX_COUNT
  THEN [ok |-> FALSE, limiter |-> m]
  ELSE [ok |-> TRUE,
        limiter |-> [m EXCEPT ![socket].count = m[socket].count + 1]]

(* ------------------------- socket.on('message') ----------------------- *)

\* What a handler leaves behind: the identity map, the sends, a crash.
Outcome(identity, sends, threw) ==
  [identity |-> identity, sent |-> sends, crashed |-> threw]

Nothing == Outcome(connectedClientIdentityMap, <<>>, FALSE)

JoinWords == " joined the conversation."

LeftWords == " left the conversation."

\* Variant: the joiner is sent the notice first, then everyone the roster,
\* then the others the notice.
JoinBranchGreetsSenderFirst(socket, msg) ==
  LET name == sanitizeString(msg.username) IN
  IF Len(name) >= MIN_NAME_LENGTH
  THEN LET m == MapSet(connectedClientIdentityMap, socket, name)
           notice == broadcast(readyState, clients,
                               SystemPayload(name, JoinWords, now))
       IN  Outcome(m,
                   SelectSeq(notice, LAMBDA x : x.to = socket)
                   \o broadcast(readyState, clients, UsersPayload(MapValues(m)))
                   \o SelectSeq(notice, LAMBDA x : x.to # socket),
                   FALSE)
  ELSE Nothing

\* Variant: the length is tested before the angle brackets are removed.
JoinBranchLengthBeforeStrip(socket, msg) ==
  LET name == sanitizeString(msg.username)
      raw == IF msg.username.t = "string" THEN Trim(msg.username.v) ELSE <<>>
  IN  IF Len(raw) >= MIN_NAME_LENGTH
      THEN LET m == MapSet(connectedClientIdentityMap, socket, name)
           IN  Outcome(m,
                       broadcast(readyState, clients, UsersPayload(MapValues(m)))
                       \o broadcast(readyState, clients,
                                    SystemPayload(name, JoinWords, now)),
                       FALSE)
      ELSE Nothing

\* if (msg.type === 'join') { ... }
JoinBranch(socket, msg) ==
  LET name == sanitizeString(msg.username) IN
  IF Len(name) >= MIN_NAME_LENGTH
  THEN LET m == MapSet(connectedClientIdentityMap, socket, name)
       IN  Outcome(m,
                   broadcast(readyState, clients, UsersPayload(MapValues(m)))
                   \o broadcast(readyState, clients,
                                SystemPayload(name, JoinWords, now)),
                   FALSE)
  ELSE Nothing

\* Variant: the sender's name is taken from the frame when it carries one.
ChatBranchTrustsPayload(socket, msg, uuid) ==
  LET name == IF msg.username.t = "string"
              THEN JsString(Trim(msg.username.v))
              ELSE MapGet(connectedClientIdentityMap, socket)
      content == sanitizeString(msg.message)
  IN  IF Truthy(name) /\ content # <<>>
      THEN Outcome(connectedClientIdentityMap,
                   broadcast(readyState, clients,
                             ChatPayload(uuid, name.v, content, now)),
                   FALSE)
      ELSE Nothing

\* Variant: no test of the stored name.
ChatBranchNoNameCheck(socket, msg, uuid) ==
  LET name == MapGet(connectedClientIdentityMap, socket)
      content == sanitizeString(msg.message)
  IN  IF content # <<>>
      THEN Outcome(connectedClientIdentityMap,
                   broadcast(readyState, clients,
                             ChatPayload(uuid, IF name.t = "string" THEN name.v ELSE <<>>,
                                         content, now)),
                   FALSE)
      ELSE Nothing

\* Variant: no test of the text that is left.
ChatBranchNoContentCheck(socket, msg, uuid) ==
  LET name == MapGet(connectedClientIdentityMap, socket)
      content == sanitizeString(msg.message)
  IN  IF Truthy(name)
      THEN Outcome(connectedClientIdentityMap,
                   broadcast(readyState, clients,
                             ChatPayload(uuid, name.v, content, now)),
                   FALSE)
      ELSE Nothing

\* if (msg.type === 'chat') { ... }
ChatBranch(socket, msg, uuid) ==
  LET name == MapGet(connectedClientIdentityMap, socket)
      content == sanitizeString(msg.message)
  IN  IF Truthy(name) /\ content # <<>>
      THEN Outcome(connectedClientIdentityMap,
                   broadcast(readyState, clients,
                             ChatPayload(uuid, name.v, content, now)),
                   FALSE)
      ELSE Nothing

\* The handler after the rate-limit gate: parse, then the two branches.
\* msg.type of null throws a TypeError that nothing catches.
Dispatch(socket, buffer, uuid) ==
  IF buffer.kind = "garbage" THEN Nothing
  ELSE IF buffer.kind = "null" THEN Outcome(connectedClientIdentityMap, <<>>, TRUE)
  ELSE IF buffer.type = JsString("join") THEN JoinBranch(socket, buffer)
  ELSE IF buffer.type = JsString("chat") THEN ChatBranch(socket, buffer, uuid)
  ELSE Nothing

\* Variant: a frame over the limit is answered with an error payload.
OnMessageRepliesError(socket, buffer, uuid) ==
  LET rl == checkRateLimit(socket)
      out == IF rl.ok THEN Dispatch(socket, buffer, uuid) ELSE Nothing
  IN  [identity |-> out.identity, limiter |-> rl.limiter,
       sent |-> IF rl.ok THEN out.sent
                ELSE <<[to |-> socket, payload |-> [type |-> "error"]]>>,
       crashed |-> out.crashed, passed |-> rl.ok]

\* Variant: a join goes round the rate-limit gate.
OnMessageJoinUnlimited(socket, buffer, uuid) ==
  LET rl == checkRateLimit(socket)
      isJoin == buffer.kind = "object" /\ buffer.type = JsString("join")
      out == IF rl.ok \/ isJoin THEN Dispatch(socket, buffer, uuid) ELSE Nothing
  IN  [identity |-> out.identity,
       limiter |-> IF isJoin THEN socketRateLimiterState ELSE rl.limiter,
       sent |-> out.sent, crashed |-> out.crashed, passed |-> rl.ok \/ isJoin]

\* socket.on('message', buffer => { if (!checkRateLimit(socket)) return; ... })
OnMessage(socket, buffer, uuid) ==
  LET rl == checkRateLimit(socket)
      out == IF rl.ok THEN Dispatch(socket, buffer, uuid) ELSE Nothing
  IN  [identity |-> out.identity, limiter |-> rl.limiter, sent |-> out.sent,
       crashed |-> out.crashed, passed |-> rl.ok]

(* ------------------- socket.on('close'), socket.on('error') ----------- *)

\* Variant: the 'close' handler leaves the rate-limit entry in place.
OnCloseOfKeepsLimiter(identity, limiter, socket, rs, cl) ==
  LET name == MapGet(identity, socket)
      m == MapDelete(identity, socket)
  IN  [identity |-> m,
       limiter |-> limiter,
       sent |-> IF Truthy(name)
                THEN broadcast(rs, cl, UsersPayload(MapValues(m)))
                     \o broadcast(rs, cl, SystemPayload(name.v, LeftWords, now))
                ELSE <<>>]

\* The 'close' handler on given maps: delete both entries; when a name was
\* stored, broadcast the roster and the notice.
OnCloseOf(identity, limiter, socket, rs, cl) ==
  LET name == MapGet(identity, socket)
      m == MapDelete(identity, socket)
  IN  [identity |-> m,
       limiter |-> LimiterDelete(limiter, socket),
       sent |-> IF Truthy(name)
                THEN broadcast(rs, cl, UsersPayload(MapValues(m)))
                     \o broadcast(rs, cl, SystemPayload(name.v, LeftWords, now))
                ELSE <<>>]

\* Variant: the 'error' handler announces the departure and drops only the
\* rate-limit entry.
OnErrorOfAnnounces(identity, limiter, socket) ==
  [identity |-> identity,
   limiter |-> LimiterDelete(limiter, socket),
   sent |-> OnCloseOf(identity, limiter, socket, readyState, clients).sent]

\* The 'error' handler on given maps: both entries deleted, nothing
\* broadcast.
OnErrorOf(identity, limiter, socket) ==
  [identity |-> MapDelete(identity, socket),
   limiter |-> LimiterDelete(limiter, socket),
   sent |-> <<>>]

\* Variant: no test of the name before the two broadcasts.
OnCloseAlwaysBroadcasts(socket, rs, cl) ==
  LET name == MapGet(connectedClientIdentityMap, socket)
      m == MapDelete(connectedClientIdentityMap, socket)
  IN  [identity |-> m,
       limiter |-> LimiterDelete(socketRateLimiterState, socket),
       sent |-> broadcast(rs, cl, UsersPayload(MapValues(m)))
                \o broadcast(rs, cl,
                             SystemPayload(IF name.t = "string" THEN name.v ELSE <<>>,
                                           LeftWords, now))]

\* socket.on('close'): rs and cl are the readyState and client set at the
\* event (ws has set the socket CLOSED and dropped it from the set).
OnClose(socket, rs, cl) ==
  OnCloseOf(connectedClientIdentityMap, socketRateLimiterState, socket, rs, cl)

\* socket.on('error')
OnError(socket) ==
  OnErrorOf(connectedClientIdentityMap, socketRateLimiterState, socket)

\* Variant: the new socket is greeted with the chat of the last handler.
OnConnectionReplays(socket) ==
  LET chats == SelectSeq(sent, LAMBDA m : m.payload.type = "chat")
  IN  IF chats = <<>> THEN <<>>
      ELSE <<[to |-> socket, payload |-> chats[1].payload]>>

\* webSocketServerHost.on('connection'): a line of log and the three
\* socket.on calls, nothing sent
OnConnection(socket) == <<>>

(* ------------------------------- client ------------------------------- *)

\* WebSocket.CONNECTING; WebSocket.OPEN, CLOSING and CLOSED are the
\* server's OPEN, CLOSING and CLOSED.
CONNECTING == OPEN - 1

\* The service and the component as constructed.  webSocketInstance is 0
\* for null, else the number of the WebSocket; peer is the server's socket
\* of that WebSocket once the server accepted it; up and down are what is
\* on the way to and from the server.  An entry of the history carries its
\* username, message and pending mark (id and timestamp are only shown).
\* emitted, emits, wire, dispatched, received and joinSent are history:
\* every call of emitDataToWebSocketServer with the WebSocket and state it
\* found, every send call, the chats dispatched and the chat payloads
\* handled, and the WebSocket a join was sent on while open.
NoClient ==
  [webSocketInstance |-> 0, socketState |-> CLOSED, peer |-> NOSOCKET,
   created |-> 0,
   messageQueueBeforeConnectionOpen |-> <<>>,
   up |-> <<>>, down |-> <<>>,
   username |-> <<>>,
   isUserJoinedToConversation |-> FALSE,
   chatMessageHistory |-> <<>>,
   emitted |-> 0, emits |-> <<>>, wire |-> <<>>,
   dispatched |-> 0, received |-> 0, joinSent |-> 0]

\* this.webSocketInstance.send(payload): the frame is on its way, and logged
SocketSend(c, item, how) ==
  [c EXCEPT !.up = Append(@, item),
            !.wire = Append(@, [n |-> item.n, emittedOn |-> item.on,
                                sentOn |-> c.webSocketInstance, how |-> how])]

\* JSON.stringify, then send when OPEN, push on the queue when CONNECTING,
\* else nothing.  The server's JSON.parse gives back the object's string
\* fields as they were.
emitDataToWebSocketServer(c, dataObject) ==
  LET item == [n |-> c.emitted + 1, on |-> c.webSocketInstance,
               frame |-> dataObject]
      d == [c EXCEPT !.emitted = @ + 1,
                     !.emits = Append(@, [n |-> item.n, on |-> item.on,
                                          state |-> IF c.webSocketInstance = 0
                                                    THEN NOSOCKET
                                                    ELSE c.socketState])]
  IN  IF c.webSocketInstance # 0 /\ c.socketState = OPEN
      THEN SocketSend(d, item, "direct")
      ELSE IF c.webSocketInstance # 0 /\ c.socketState = CONNECTING
           THEN [d EXCEPT !.messageQueueBeforeConnectionOpen = Append(@, item)]
           ELSE d

RECURSIVE FlushNewestFirst(_)
\* Variant: the queue is emptied from its end (pop where the code shifts).
FlushNewestFirst(c) ==
  LET q == c.messageQueueBeforeConnectionOpen IN
  IF q = <<>> THEN c
  ELSE LET d == [c EXCEPT !.messageQueueBeforeConnectionOpen = SubSeq(q, 1, Len(q) - 1)]
       IN  FlushNewestFirst(IF d.webSocketInstance # 0 /\ d.socketState = OPEN
                            THEN SocketSend(d, q[Len(q)], "flush") ELSE d)

RECURSIVE flushMessageQueueAfterConnection(_)
\* while (queue.length > 0) { next = queue.shift(); if OPEN, send(next) }
flushMessageQueueAfterConnection(c) ==
  LET q == c.messageQueueBeforeConnectionOpen IN
  IF q = <<>> THEN c
  ELSE LET d == [c EXCEPT !.messageQueueBeforeConnectionOpen = Tail(q)]
       IN  flushMessageQueueAfterConnection(
             IF d.webSocketInstance # 0 /\ d.socketState = OPEN
             THEN SocketSend(d, Head(q), "flush") ELSE d)

registerUserToChatSession(c, username) ==
  emitDataToWebSocketServer(c, JoinFrame(JsString(username)))

dispatchChatMessage(c, username, messageContent) ==
  emitDataToWebSocketServer(c, ChatFrame(JsString(username), JsString(messageContent)))

\* this.clientChatFormGroup?.get('username')?.value?.trim() || ''
currentAuthenticatedUsername(c) == Trim(c.username)

isMessageSentByCurrentUser(c, senderUsername) ==
  senderUsername = currentAuthenticatedUsername(c)

\* The flag is set as soon as the join has been handed to the service.
joinResidentConversationalCircle(c) ==
  LET trimmedUsername == currentAuthenticatedUsername(c) IN
  IF trimmedUsername # <<>>
  THEN LET d == registerUserToChatSession(c, trimmedUsername)
       IN  [d EXCEPT !.isUserJoinedToConversation = TRUE,
                     !.joinSent = IF c.webSocketInstance # 0 /\ c.socketState = OPEN
                                  THEN c.webSocketInstance ELSE @]
  ELSE c

appendOptimisticMessageToHistory(c, username, content) ==
  [c EXCEPT !.chatMessageHistory =
              Append(@, [username |-> username, message |-> content,
                         pending |-> TRUE])]

dispatchNewChatMessage(c, value) ==
  LET trimmedMessageContent == Trim(value)
      authenticatedUsername == currentAuthenticatedUsername(c)
  IN  IF trimmedMessageContent # <<>> /\ authenticatedUsername # <<>>
      THEN [dispatchChatMessage(
              appendOptimisticMessageToHistory(c, authenticatedUsername,
                                               trimmedMessageContent),
              authenticatedUsername, trimmedMessageContent)
            EXCEPT !.dispatched = @ + 1]
      ELSE c

\* findIndex: the first pending entry with the same message, 0 for -1
IndexOfMatchingPendingMessage(history, message) ==
  LET found == {i \in 1..Len(history) :
                  history[i].pending /\ history[i].message = message}
  IN  IF found = {} THEN 0 ELSE CHOOSE i \in found : \A j \in found : i <= j

Splice1(seq, i) == SubSeq(seq, 1, i - 1) \o SubSeq(seq, i + 1, Len(seq))

handleIncomingChatMessage(c, newIncomingMessage) ==
  LET history == c.chatMessageHistory
      index == IF isMessageSentByCurrentUser(c, newIncomingMessage.username)
               THEN IndexOfMatchingPendingMessage(history, newIncomingMessage.message)
               ELSE 0
      kept == IF index # 0 THEN Splice1(history, index) ELSE history
  IN  [c EXCEPT !.chatMessageHistory =
                  Append(kept, [username |-> newIncomingMessage.username,
                                message |-> newIncomingMessage.message,
                                pending |-> FALSE])]

SystemName == <<"S", "y", "s", "t", "e", "m">>

\* onmessage: 'chat' and 'system' payloads go to the history, the second
\* under the name 'System'; a 'users' payload goes to the participant
\* list, which is not part of this model.
processIncomingWebSocketMessage(c, payload) ==
  IF payload.type = "chat"
  THEN [handleIncomingChatMessage(c, [username |-> payload.username,
                                      message |-> payload.message])
        EXCEPT !.received = @ + 1]
  ELSE IF payload.type = "system"
       THEN handleIncomingChatMessage(c, [username |-> SystemName,
                                          message |-> payload.message])
       ELSE c

(* ------------------------------ history ------------------------------- *)

NoUsers == [has |-> FALSE]

\* The last 'users' payload among `sends` addressed to c, else what c had.
LastUsersAfter(c, sends) ==
  LET idx == {i \in 1..Len(sends) :
                sends[i].to = c /\ sends[i].payload.type = "users"}
  IN  IF idx = {} THEN lastUsers[c]
      ELSE [has |-> TRUE,
            users |-> sends[CHOOSE i \in idx : \A j \in idx : j <= i].payload.users]

HasChat(sends) == \E i \in 1..Len(sends) : sends[i].payload.type = "chat"

\* A chat that only the rate limit can stop: the sender holds an identity
\* and the text is not empty once sanitized.
ValidChat(socket, buffer) ==
  /\ buffer.kind = "object"
  /\ buffer.type = JsString("chat")
  /\ MapHas(connectedClientIdentityMap, socket)
  /\ sanitizeString(buffer.message) # <<>>

NoHist ==
  [start |-> 0, frames |-> 0, valid |-> 0, early |-> 0, bcast |-> 0,
   wasBlocked |-> FALSE]

\* The socket's frames since the frame that opened its window (a frame
\* opens one when none is open or the last opened more than 10 s ago):
\* frames of any kind, valid chats, valid chats among the first MAX_COUNT
\* frames, chats broadcast; and whether the window before held more than
\* MAX_COUNT frames.
HistAfter(socket, buffer, sends) ==
  LET h == hist[socket]
      base == IF h.frames = 0 \/ now - h.start > WINDOW_MS
              THEN [NoHist EXCEPT !.start = now,
                                  !.wasBlocked = h.frames > MAX_COUNT]
              ELSE h
      n == base.frames + 1
      valid == ValidChat(socket, buffer)
  IN  [start |-> base.start,
       frames |-> n,
       valid |-> base.valid + (IF valid THEN 1 ELSE 0),
       early |-> base.early + (IF valid /\ n <= MAX_COUNT THEN 1 ELSE 0),
       bcast |-> base.bcast + (IF HasChat(sends) THEN 1 ELSE 0),
       wasBlocked |-> base.wasBlocked]

\* The sockets that hold an identity, in the order in which they got one:
\* the socket comes last when the handler gave it its first.
AttachedAfter(socket, identity) ==
  IF (\E i \in 1..Len(identity) : identity[i].socket = socket)
     /\ ~(\E i \in 1..Len(attached) : attached[i] = socket)
  THEN Append(attached, socket)
  ELSE attached

\* Chats accepted so far; per socket the chats accepted before it connected,
\* the 'chat' payloads it was sent, and the 'close' and 'error' handlers run.
\* inbox, when it is kept, is per socket the payloads it was sent, in the
\* order of the send calls, each with the number of the handler that sent it
\* and the socket whose event that handler served.
NoJournal ==
  [accepted |-> 0, openedAt |-> [c \in Conns |-> 0],
   heard |-> [c \in Conns |-> 0], removals |-> [c \in Conns |-> 0],
   inbox |-> <<>>]

EmptyInboxes == [c \in Conns |-> <<>>]

ChatsTo(c, sends) ==
  Cardinality({i \in 1..Len(sends) :
                 sends[i].to = c /\ sends[i].payload.type = "chat"})

\* What one socket is sent by the handler that serves an event of `socket`.
Stamped(c, socket, sends) ==
  LET mine == SelectSeq(sends, LAMBDA m : m.to = c)
  IN  [i \in 1..Len(mine) |->
         [n |-> handled + 1, from |-> socket, payload |-> mine[i].payload]]

\* The journal after a handler of `socket` that accepted `accepts` chats and
\* sent `sends`.
JournalAfter(socket, accepts, sends) ==
  [journal EXCEPT !.accepted = @ + accepts,
                  !.heard = [c \in Conns |-> @[c] + ChatsTo(c, sends)],
                  !.inbox = IF @ = <<>> THEN @
                            ELSE [c \in Conns |-> @[c] \o Stamped(c, socket, sends)]]

\* Chats of one sender that are younger than 10 s at time t.
Prune(r, t) == [s \in Times |-> IF s > t - WINDOW_MS THEN r[s] ELSE 0]

RECURSIVE SumOver(_, _)
SumOver(r, S) ==
  IF S = {} THEN 0
  ELSE LET s == CHOOSE x \in S : TRUE IN r[s] + SumOver(r, S \ {s})

(* ------------------------------ actions ------------------------------- *)

Init ==
  /\ readyState = [c \in Conns |-> NOSOCKET]
  /\ clients = <<>>
  /\ origin = [c \in Conns |-> NoOrigin]
  /\ connectedClientIdentityMap = <<>>
  /\ socketRateLimiterState = <<>>
  /\ now = 0
  /\ crashed = FALSE
  /\ sent = <<>>
  /\ event = [kind |-> "listen"]
  /\ lastUsers = [c \in Conns |-> NoUsers]
  /\ recentChats = [c \in Conns |-> [s \in Times |-> 0]]
  /\ hist = [c \in Conns |-> NoHist]
  /\ attached = <<>>
  /\ journal = NoJournal
  /\ handled = 0
  /\ client = NoClient

\* The same start with the inboxes kept.
InitOrder ==
  /\ readyState = [c \in Conns |-> NOSOCKET]
  /\ clients = <<>>
  /\ origin = [c \in Conns |-> NoOrigin]
  /\ connectedClientIdentityMap = <<>>
  /\ socketRateLimiterState = <<>>
  /\ now = 0
  /\ crashed = FALSE
  /\ sent = <<>>
  /\ event = [kind |-> "listen"]
  /\ lastUsers = [c \in Conns |-> NoUsers]
  /\ recentChats = [c \in Conns |-> [s \in Times |-> 0]]
  /\ hist = [c \in Conns |-> NoHist]
  /\ attached = <<>>
  /\ journal = [NoJournal EXCEPT !.inbox = EmptyInboxes]
  /\ handled = 0
  /\ client = NoClient

\* An upgrade request that verifyClient lets through, then
\* webSocketServerHost.on('connection'): sockets are numbered as accepted
Connect(socket, from) ==
  /\ ~crashed
  /\ verifyClient(from)
  /\ origin' = [origin EXCEPT ![socket] = from]
  /\ handled < MaxEvents
  /\ handled' = handled + 1
  /\ readyState[socket] = NOSOCKET
  /\ socket = Len(clients) + 1 + Cardinality({c \in Conns : readyState[c] = CLOSED})
  /\ readyState' = [readyState EXCEPT ![socket] = OPEN]
  /\ clients' = Append(clients, socket)
  /\ sent' = OnConnection(socket)
  /\ journal' = [JournalAfter(socket, 0, sent') EXCEPT !.openedAt[socket] = journal.accepted]
  /\ event' = [kind |-> "connection"]
  /\ UNCHANGED <<connectedClientIdentityMap, socketRateLimiterState, now,
                 crashed, lastUsers, recentChats, hist, attached>>

\* The peer's close frame arrived: ws answers it and waits for the socket
\* to end; no handler of the server runs.
TransportClosing(socket) ==
  /\ ~crashed
  /\ handled < MaxEvents
  /\ handled' = handled + 1
  /\ readyState[socket] = OPEN
  /\ readyState' = [readyState EXCEPT ![socket] = CLOSING]
  /\ sent' = <<>>
  /\ event' = [kind |-> "closing"]
  /\ UNCHANGED <<origin, journal>>
  /\ UNCHANGED <<clients, connectedClientIdentityMap, socketRateLimiterState,
                 now, crashed, lastUsers, recentChats, hist, attached>>

\* The 'message' event of an open socket.  With `counted` the two rate
\* histories follow the sender, which may go maxFrames frames into a window;
\* without, the frame is one of the run's maxFrames events.
MessageEvent(socket, buffer, uuid, maxFrames, counted) ==
  /\ ~crashed
  /\ readyState[socket] = OPEN
  /\ LET r == OnMessage(socket, buffer, uuid)
         h == HistAfter(socket, buffer, r.sent)
     IN  /\ IF counted THEN h.frames <= maxFrames ELSE handled < maxFrames
         /\ crashed' = r.crashed
         /\ IF r.crashed
            THEN \* the process is gone, and its memory and sockets with it
                 /\ readyState' = [c \in Conns |-> IF readyState[c] = NOSOCKET
                                                   THEN NOSOCKET ELSE CLOSED]
                 /\ clients' = <<>>
                 /\ connectedClientIdentityMap' = <<>>
                 /\ socketRateLimiterState' = <<>>
                 /\ sent' = <<>>
                 /\ attached' = <<>>
                 /\ UNCHANGED <<hist, handled, lastUsers, recentChats, journal>>
            ELSE /\ handled' = IF counted THEN handled ELSE handled + 1
                 /\ connectedClientIdentityMap' = r.identity
                 /\ socketRateLimiterState' = r.limiter
                 /\ sent' = r.sent
                 /\ hist' = IF counted THEN [hist EXCEPT ![socket] = h] ELSE hist
                 /\ lastUsers' = [c \in Conns |-> LastUsersAfter(c, r.sent)]
                 /\ attached' = AttachedAfter(socket, r.identity)
                 /\ journal' =
                      IF counted THEN journal
                      ELSE JournalAfter(socket, IF r.passed /\ ValidChat(socket, buffer)
                                        THEN 1 ELSE 0, r.sent)
                 /\ recentChats' =
                      IF counted /\ HasChat(r.sent)
                      THEN [recentChats EXCEPT ![socket][now] = @ + 1]
                      ELSE recentChats
                 /\ UNCHANGED <<readyState, clients>>
  /\ event' = [kind |-> "message", socket |-> socket, frame |-> buffer]
  /\ UNCHANGED <<now, origin>>

\* The socket ended: ws sets it CLOSED, drops it from the client set and
\* emits 'close'.
CloseEvent(socket) ==
  /\ ~crashed
  /\ handled < MaxEvents
  /\ handled' = handled + 1
  /\ readyState[socket] \in {OPEN, CLOSING}
  /\ readyState' = [readyState EXCEPT ![socket] = CLOSED]
  /\ clients' = SelectSeq(clients, LAMBDA c : c # socket)
  /\ LET r == OnClose(socket, readyState', clients')
     IN  /\ connectedClientIdentityMap' = r.identity
         /\ socketRateLimiterState' = r.limiter
         /\ sent' = r.sent
         /\ lastUsers' = [c \in Conns |-> LastUsersAfter(c, r.sent)]
  /\ event' = [kind |-> "close", socket |-> socket]
  /\ attached' = SelectSeq(attached, LAMBDA c : c # socket)
  /\ journal' = [JournalAfter(socket, 0, sent') EXCEPT !.removals[socket] = @ + 1]
  /\ UNCHANGED origin
  /\ UNCHANGED <<now, crashed, recentChats, hist>>

\* The receiver met a frame it refuses (too large, invalid): ws stops
\* reading, sets the socket CLOSING and emits 'error'; 'close' follows.
ErrorEvent(socket) ==
  /\ ~crashed
  /\ handled < MaxEvents
  /\ handled' = handled + 1
  /\ readyState[socket] = OPEN
  /\ readyState' = [readyState EXCEPT ![socket] = CLOSING]
  /\ LET r == OnError(socket)
     IN  /\ connectedClientIdentityMap' = r.identity
         /\ socketRateLimiterState' = r.limiter
         /\ sent' = r.sent
  /\ event' = [kind |-> "error", socket |-> socket]
  /\ attached' = SelectSeq(attached, LAMBDA c : c # socket)
  /\ journal' = [JournalAfter(socket, 0, sent') EXCEPT !.removals[socket] = @ + 1]
  /\ UNCHANGED origin
  /\ UNCHANGED <<clients, now, crashed, lastUsers, recentChats, hist>>

\* Time passes between two events.
Tick(instants) ==
  /\ ~crashed
  /\ \E t \in instants :
       /\ t > now
       /\ now' = t
       /\ recentChats' = [c \in Conns |-> Prune(recentChats[c], t)]
  /\ sent' = <<>>
  /\ event' = [kind |-> "tick"]
  /\ UNCHANGED <<origin, attached, journal, client>>
  /\ UNCHANGED <<readyState, clients, connectedClientIdentityMap,
                 socketRateLimiterState, crashed, lastUsers, hist, handled>>

\* Only a chat draws a UUID.
UuidsFor(buffer, ids) ==
  IF buffer.kind = "object" /\ buffer.type = JsString("chat")
  THEN ids ELSE {"u1"}

\* Events of sockets whose peers are not modelled.
Lifecycle(sockets, origins) ==
  \E socket \in sockets :
    \/ \E from \in origins : Connect(socket, from) /\ UNCHANGED client
    \/ TransportClosing(socket) /\ UNCHANGED client
    \/ CloseEvent(socket) /\ UNCHANGED client
    \/ ErrorEvent(socket) /\ UNCHANGED client

Message(senders, frames, ids, maxFrames, counted) ==
  \E socket \in senders, buffer \in frames :
    \E uuid \in UuidsFor(buffer, ids) :
      MessageEvent(socket, buffer, uuid, maxFrames, counted) /\ UNCHANGED client

\* Any socket sends any frame of the protocol, at one instant.
Next ==
  \/ Lifecycle(Conns, {CLIENT_ORIGIN_URL})
  \/ Message(Conns, Frames, Uuids, MaxEvents, FALSE)

Spec == Init /\ [][Next]_vars

\* One socket sends up to and past the cap.
NextRate ==
  \/ Lifecycle({1}, {CLIENT_ORIGIN_URL})
  \/ Message({1}, RateFrames, {"u1"}, MAX_COUNT + MaxOver, TRUE)
  \/ Tick(Times)

SpecRate == Init /\ [][NextRate]_vars

\* Texts as long as the ceiling and longer.
NextText ==
  \/ Lifecycle(Conns, {CLIENT_ORIGIN_URL})
  \/ Message({1}, TextFrames, {"u1"}, MaxEvents, FALSE)
  \/ Tick(CoarseTimes)

SpecText == Init /\ [][NextText]_vars

\* Connection attempts from any origin.
NextOrigin ==
  \/ Lifecycle(Conns, Origins)
  \/ Message(Conns, OriginFrames, {"u1"}, MaxEvents, FALSE)

SpecOrigin == Init /\ [][NextOrigin]_vars

\* The behaviours of Spec with every socket's inbox kept.
NextOrder ==
  \/ Lifecycle(Conns, {CLIENT_ORIGIN_URL})
  \/ Message(Conns, OrderFrames, Uuids, MaxEvents, FALSE)

SpecOrder == InitOrder /\ [][NextOrder]_vars

(* --------------------------- client and server ------------------------ *)

\* What the user types as a name, and as a message.
FormNames == { Text_al, <<"<", "b", "o", ">">>, <<" ", "a", " ">> }

FormMessages == { Text_hi, <<"a", "<", "b">> }

\* initializeConnection: nothing when there is a WebSocket, else a new one
InitializeConnection ==
  /\ ~crashed
  /\ client.webSocketInstance = 0
  /\ client.created < NumConns
  /\ client' = [client EXCEPT !.webSocketInstance = client.created + 1,
                              !.created = @ + 1,
                              !.socketState = CONNECTING,
                              !.peer = NOSOCKET]
  /\ UNCHANGED <<serverState, handled>>

\* The handshake completes: the server's 'connection' event, and the
\* client's onopen, which flushes the queue.
SocketOpens ==
  /\ client.webSocketInstance # 0
  /\ client.socketState = CONNECTING
  /\ \E socket \in Conns :
       /\ Connect(socket, CLIENT_ORIGIN_URL)
       /\ client' = flushMessageQueueAfterConnection(
                      [client EXCEPT !.socketState = OPEN, !.peer = socket])

\* The user types a name in the form, before joining.
TypeUsername ==
  /\ ~crashed
  /\ ~client.isUserJoinedToConversation
  /\ \E value \in FormNames :
       /\ client.username # value
       /\ client' = [client EXCEPT !.username = value]
  /\ UNCHANGED <<serverState, handled>>

\* The user submits the name.
UserJoins ==
  /\ ~crashed
  /\ handled < MaxEvents
  /\ handled' = handled + 1
  /\ ~client.isUserJoinedToConversation
  /\ client.username # <<>>
  /\ client' = joinResidentConversationalCircle(client)
  /\ UNCHANGED serverState

\* The user submits a message in the chat interface.
UserDispatches ==
  /\ ~crashed
  /\ handled < MaxEvents
  /\ handled' = handled + 1
  /\ client.isUserJoinedToConversation
  /\ \E value \in FormMessages :
       client' = dispatchNewChatMessage(client, value)
  /\ UNCHANGED serverState

\* The client's next frame reaches the server: its 'message' handler runs,
\* and what it sends to this socket is on its way back.
ServerHandles ==
  /\ client.up # <<>>
  /\ client.peer # NOSOCKET
  /\ \E uuid \in UuidsFor(Head(client.up).frame, Uuids) :
       MessageEvent(client.peer, Head(client.up).frame, uuid, MaxEvents, FALSE)
  /\ client' =
       [client EXCEPT
          !.up = Tail(@),
          !.down = @ \o [i \in 1..Len(SelectSeq(sent', LAMBDA m : m.to = client.peer))
                          |-> SelectSeq(sent', LAMBDA m : m.to = client.peer)[i].payload]]

\* onmessage for the next payload from the server.
ClientReceives ==
  /\ ~crashed
  /\ client.down # <<>>
  /\ client' = processIncomingWebSocketMessage([client EXCEPT !.down = Tail(@)],
                                               Head(client.down))
  /\ UNCHANGED <<serverState, handled>>

\* The connection attempt fails: onerror, whose handler calls close().
ConnectionFails ==
  /\ ~crashed
  /\ handled < MaxEvents
  /\ handled' = handled + 1
  /\ client.webSocketInstance # 0
  /\ client.socketState = CONNECTING
  /\ client' = [client EXCEPT !.socketState = CLOSING]
  /\ UNCHANGED serverState

\* The WebSocket is closed: onclose sets webSocketInstance to null; what
\* was on the way is lost; the server's 'close' handler runs for a socket
\* it had accepted.
SocketCloses ==
  /\ client.webSocketInstance # 0
  /\ client.socketState \in {OPEN, CLOSING}
  /\ IF client.peer # NOSOCKET
     THEN CloseEvent(client.peer)
     ELSE /\ ~crashed
          /\ handled < MaxEvents
          /\ handled' = handled + 1
          /\ UNCHANGED serverState
  /\ client' = [client EXCEPT !.webSocketInstance = 0,
                              !.socketState = CLOSED,
                              !.peer = NOSOCKET,
                              !.up = <<>>, !.down = <<>>]

\* One browser and the server.
NextClient ==
  \/ InitializeConnection
  \/ SocketOpens
  \/ TypeUsername
  \/ UserJoins
  \/ UserDispatches
  \/ ServerHandles
  \/ ClientReceives
  \/ ConnectionFails
  \/ SocketCloses

SpecClient == Init /\ [][NextClient]_vars

(* ------------------------ vocabulary of the claims -------------------- *)

IsJoin(buffer) == buffer.kind = "object" /\ buffer.type = JsString("join")

IsChat(buffer) == buffer.kind = "object" /\ buffer.type = JsString("chat")

\* The last event was the 'message' event of a chat frame.
LastChat == event.kind = "message" /\ IsChat(event.frame)

Holds(socket) == MapHas(connectedClientIdentityMap, socket)

\* The sends of the last handler that carry a payload of the type.
Sends(type) == {i \in 1..Len(sent) : sent[i].payload.type = type}

SendsTo(type, c) == {i \in Sends(type) : sent[i].to = c}

HasAngle(text) == \E i \in 1..Len(text) : IsAngle(text[i])

(* --------------------------------- C1 --------------------------------- *)

\* C1: a chat submitted by a socket that holds no identity puts no 'chat'
\* payload on any socket, and every 'users' payload lists exactly the names
\* of the sockets that hold an identity, so none for a socket without one.
C1_UnjoinedNeverHeard ==
  /\ (LastChat /\ ~Holds(event.socket)) => Sends("chat") = {}
  /\ \A i \in Sends("users") :
       sent[i].payload.users = MapValues(connectedClientIdentityMap)

\* An unjoined socket sent a chat with a good text while another socket was
\* open to hear it, and nothing was sent.
C1_Witness ==
  /\ LastChat
  /\ ~Holds(event.socket)
  /\ sanitizeString(event.frame.message) # <<>>
  /\ \E c \in Conns : c # event.socket /\ readyState[c] = OPEN /\ Holds(c)
  /\ sent = <<>>

(* --------------------------------- C2 --------------------------------- *)

\* C2: the identity stored for a socket, once set, never changes while the
\* socket keeps one: a later join leaves the first accepted name in place.
C2_IdentityImmutable ==
  [][\A c \in Conns :
       (Holds(c) /\ MapHas(connectedClientIdentityMap', c))
       => MapGet(connectedClientIdentityMap', c) = MapGet(connectedClientIdentityMap, c)]_vars

(* --------------------------------- C3 --------------------------------- *)

\* Every departure under way has ended: no socket is between its 'error'
\* or its peer's close frame and its 'close' event.
Settled == \A c \in Conns : readyState[c] # CLOSING

\* C3: once the joins and leaves so far have ended, the most recent 'users'
\* payload an open socket has been sent lists exactly the identities of the
\* sockets that are joined and have not left.
C3_LastRosterIsLive ==
  Settled =>
    \A c \in Conns :
      (readyState[c] = OPEN /\ lastUsers[c].has)
      => lastUsers[c].users = MapValues(connectedClientIdentityMap)

(* --------------------------------- C4 --------------------------------- *)

\* Chats of the sender broadcast in the 10 s that end now.
RecentChats(c) == SumOver(recentChats[c], Times)

\* C4 as stated: in every interval of 10 s, stored window or not, at most
\* 30 chats of one socket are broadcast.
C4_RollingCap == \A c \in Conns : RecentChats(c) <= MAX_COUNT

\* C4 amended: at most 30 chats of one socket are broadcast in one stored
\* window (from the frame that opened it to 10000 ms later), and an interval
\* of 10 s, which meets at most two stored windows, holds at most 59.
C4_WindowCap ==
  \A c \in Conns :
    /\ hist[c].bcast <= MAX_COUNT
    /\ RecentChats(c) <= 2 * MAX_COUNT - 1

\* The cap has acted (the chat after the 30th of a window was dropped) in an
\* interval of 10 s that holds 59 broadcast chats.
C4_Witness ==
  \E c \in Conns :
    /\ LastChat /\ event.socket = c /\ Holds(c)
    /\ hist[c].bcast = MAX_COUNT
    /\ hist[c].frames > MAX_COUNT
    /\ sent = <<>>
    /\ RecentChats(c) = 2 * MAX_COUNT - 1

(* --------------------------------- C5 --------------------------------- *)

ValidJoin(buffer) ==
  IsJoin(buffer) /\ Len(sanitizeString(buffer.username)) >= MIN_NAME_LENGTH

\* The last event was the 'message' event of a valid join.
LastValidJoin == event.kind = "message" /\ ValidJoin(event.frame)

\* C6 as stated: a valid join is accepted whatever the limiter's state, and
\* handling it leaves the limiter's state as it was.
C6_JoinNotLimited ==
  [][(event'.kind = "message" /\ ValidJoin(event'.frame))
       => /\ MapHas(connectedClientIdentityMap', event'.socket)
          /\ socketRateLimiterState' = socketRateLimiterState]_vars

\* C6 amended: a join passes the same limiter as every frame.  A valid join
\* that is among the first 30 frames of its window is accepted, announced,
\* and counted (the window count equals the frames so far); one that comes
\* after the 30th is dropped: nothing is sent and the count stays at 30.
C6_JoinIsLimited ==
  (LastValidJoin /\ ~crashed) =>
    LET c == event.socket IN
    /\ c \in DOMAIN socketRateLimiterState
    /\ IF hist[c].frames <= MAX_COUNT
       THEN /\ Holds(c)
            /\ SendsTo("users", c) # {}
            /\ socketRateLimiterState[c].count = hist[c].frames
       ELSE /\ sent = <<>>
            /\ socketRateLimiterState[c].count = MAX_COUNT

\* A valid join of an unjoined socket came after 30 frames of its window
\* and was dropped.
C6_Witness ==
  /\ LastValidJoin
  /\ hist[event.socket].frames > MAX_COUNT
  /\ ~Holds(event.socket)
  /\ sent = <<>>

(* --------------------------------- C7 --------------------------------- *)

\* The usernames a chat frame may claim.
ClaimedSenders ==
  {JsUndefined, JsNumber(7), JsString(Text_eve), JsString(Text_al),
   JsString(Text_bo)}

\* C7: every 'chat' payload names the identity stored for the sending
\* socket, and the username of the inbound frame changes nothing: the
\* handler's outcome is the same for any two frames that differ only there.
C7_SenderFromConnection ==
  /\ LastChat =>
       \A i \in Sends("chat") :
         MapGet(connectedClientIdentityMap, event.socket)
           = JsString(sent[i].payload.username)
  /\ \A c \in Conns, buffer \in Frames, u \in ClaimedSenders, id \in Uuids :
       (readyState[c] = OPEN /\ ~crashed /\ IsChat(buffer))
       => OnMessage(c, [buffer EXCEPT !.username = u], id) = OnMessage(c, buffer, id)

\* A chat frame that claims to come from "eve" was broadcast under the
\* sender's stored identity.
C7_Witness ==
  /\ LastChat
  /\ event.frame.username = JsString(Text_eve)
  /\ Sends("chat") # {}
  /\ \A i \in Sends("chat") :
       /\ sent[i].payload.username # Text_eve
       /\ MapGet(connectedClientIdentityMap, event.socket)
            = JsString(sent[i].payload.username)

(* --------------------------------- C8 --------------------------------- *)

\* C8: no 'chat' payload's message holds '<' or '>', and neither does any
\* stored identity, roster entry or name in a system notice.
C8_NoAngleBrackets ==
  /\ \A i \in Sends("chat") : ~HasAngle(sent[i].payload.message)
  /\ \A i \in 1..Len(connectedClientIdentityMap) :
       ~HasAngle(connectedClientIdentityMap[i].name)
  /\ \A i \in Sends("users") :
       \A j \in 1..Len(sent[i].payload.users) : ~HasAngle(sent[i].payload.users[j])
  /\ \A i \in Sends("system") : ~HasAngle(sent[i].payload.message[1])

\* A chat whose text held two or more angle brackets was broadcast by a
\* socket whose own name was sent in with angle brackets.
C8_Witness ==
  /\ LastChat
  /\ event.frame.message.t = "string"
  /\ Cardinality({i \in 1..Len(event.frame.message.v) :
                    IsAngle(event.frame.message.v[i])}) >= 2
  /\ Sends("chat") # {}
  /\ MapGet(connectedClientIdentityMap, event.socket) = JsString(Text_bo)

(* --------------------------------- C9 --------------------------------- *)

\* The inbound text trimmed and without '<' and '>', at full length.
Cleaned(value) == ReplaceAngles(Trim(value.v))

\* C9: when the text of an accepted chat, trimmed and stripped of '<' and
\* '>', is longer than 1000 characters, the message broadcast is its first
\* 1000 characters; no message broadcast is longer than 1000.
C9_TruncatedToThousand ==
  /\ \A i \in Sends("chat") : Len(sent[i].payload.message) <= MAX_LENGTH
  /\ LastChat =>
       \A i \in Sends("chat") :
         Len(Cleaned(event.frame.message)) > MAX_LENGTH
         => /\ Len(sent[i].payload.message) = MAX_LENGTH
            /\ sent[i].payload.message
                 = SubSeq(Cleaned(event.frame.message), 1, MAX_LENGTH)

\* A text of more than 1000 characters after cleaning was broadcast.
C9_Witness ==
  /\ LastChat
  /\ Sends("chat") # {}
  /\ Len(Cleaned(event.frame.message)) > MAX_LENGTH
  /\ Len(event.frame.message.v) > Len(Cleaned(event.frame.message))

(* --------------------------------- C10 -------------------------------- *)

\* C10: an accepted chat is sent exactly once to every socket that is open
\* at the send, the sender and the sockets without an identity included,
\* and never twice to any socket.
C10_OncePerOpenSocket ==
  (LastChat /\ ValidChat(event.socket, event.frame)
     /\ hist[event.socket].frames <= MAX_COUNT /\ ~crashed)
  => \A c \in Conns :
       /\ readyState[c] = OPEN => Cardinality(SendsTo("chat", c)) = 1
       /\ Cardinality(SendsTo("chat", c)) <= 1

\* A chat reached its sender and an open socket that never joined.
C10_Witness ==
  /\ LastChat
  /\ SendsTo("chat", event.socket) # {}
  /\ \E c \in Conns :
       /\ c # event.socket
       /\ ~Holds(c)
       /\ readyState[c] = OPEN
       /\ SendsTo("chat", c) # {}

(* --------------------------------- C11 -------------------------------- *)

\* C11: the recipients of one broadcast get the identical payload: any two
\* sends of one handler that carry a payload of the same type carry the same
\* id, username, message and timestamp (users, message for the other types).
C11_SamePayloadToAll ==
  \A i, j \in 1..Len(sent) :
    sent[i].payload.type = sent[j].payload.type
    => sent[i].payload = sent[j].payload

\* A chat was sent to two sockets, and both got the same payload.
C11_Witness ==
  /\ LastChat
  /\ \E i, j \in Sends("chat") :
       /\ sent[i].to # sent[j].to
       /\ sent[i].payload = sent[j].payload

(* --------------------------------- C12 -------------------------------- *)

\* The last event was the 'message' event of a join frame.
LastJoin == event.kind = "message" /\ IsJoin(event.frame)

\* A username that has fewer than 2 characters once trimmed and stripped of
\* '<' and '>'; a username that is no string counts as empty.
TooShort(username) ==
  IF username.t = "string"
  THEN Len(ReplaceAngles(Trim(username.v))) < MIN_NAME_LENGTH
  ELSE TRUE

\* Usernames that are too short: empty, blank, one character, one character
\* in angle brackets, only angle brackets, absent, numbers.
ShortNames ==
  { JsString(<<>>), JsString(<<" ", " ", " ">>), JsString(<<"a">>),
    JsString(<<"<", "a", ">">>), JsString(<<" ", "<", ">", "<", " ">>),
    JsUndefined, JsNumber(7), JsNumber(42) }

\* C12: a join whose username is too short sends nothing, and in every
\* state the handler leaves the identity map as it is and sends nothing for
\* every such join of every open socket, joined or not.
C12_ShortNameRejected ==
  /\ (LastJoin /\ TooShort(event.frame.username)) => sent = <<>>
  /\ \A c \in Conns, u \in ShortNames :
       (readyState[c] = OPEN /\ ~crashed)
       => /\ TooShort(u)
          /\ OnMessage(c, JoinFrame(u), "u1").identity = connectedClientIdentityMap
          /\ OnMessage(c, JoinFrame(u), "u1").sent = <<>>

\* A socket without identity sent the join "<a>" while another socket was
\* open and joined: nothing was sent and the sender still has no identity.
C12_Witness ==
  /\ LastJoin
  /\ TooShort(event.frame.username)
  /\ event.frame.username.t = "string" /\ event.frame.username.v # <<>>
  /\ ~Holds(event.socket)
  /\ \E c \in Conns : c # event.socket /\ readyState[c] = OPEN /\ Holds(c)
  /\ sent = <<>>

(* --------------------------------- C13 -------------------------------- *)

\* A frame that does not parse, or that parses to a value without a type
\* or with a type that is neither 'join' nor 'chat'.
Malformed(buffer) == ~IsJoin(buffer) /\ ~IsChat(buffer)

\* C13: handling a malformed frame changes neither the identity map nor the
\* rate-limit state and sends nothing.
C13_MalformedNoEffect ==
  [][(event'.kind = "message" /\ Malformed(event'.frame))
       => /\ connectedClientIdentityMap' = connectedClientIdentityMap
          /\ socketRateLimiterState' = socketRateLimiterState
          /\ sent' = <<>>]_vars

(* --------------------------------- C14 -------------------------------- *)

\* C14: when the 'close' or the 'error' event of a socket that holds an
\* identity has been handled, the socket holds none, and every socket that
\* is still open has been sent a 'users' payload with the identities left.
C14_LeaveRebroadcasts ==
  [][(event'.kind \in {"close", "error"}
        /\ MapHas(connectedClientIdentityMap, event'.socket))
       => /\ ~MapHas(connectedClientIdentityMap', event'.socket)
          /\ \A c \in Conns :
               readyState'[c] = OPEN
               => \E i \in 1..Len(sent') :
                    /\ sent'[i].to = c
                    /\ sent'[i].payload.type = "users"
                    /\ sent'[i].payload.users
                         = MapValues(connectedClientIdentityMap')]_vars

(* --------------------------------- C15 -------------------------------- *)

\* C15: a connection attempt from an origin other than the configured one
\* is refused: it gets no socket, holds no identity, and no frame of its
\* is answered with a broadcast.
C15_ForeignOriginRefused ==
  \A c \in Conns :
    origin[c] \notin {NoOrigin, CLIENT_ORIGIN_URL}
    => /\ readyState[c] = NOSOCKET
       /\ ~Holds(c)
       /\ (event.kind = "message" /\ event.socket = c) => sent = <<>>

(* --------------------------------- C16 -------------------------------- *)

\* The last frame was rejected: malformed, a join with a name too short, a
\* chat of a socket without identity or with no text left, or a frame that
\* came after the 30th of its window.
Rejected ==
  /\ event.kind = "message"
  /\ \/ Malformed(event.frame)
     \/ IsJoin(event.frame) /\ TooShort(event.frame.username)
     \/ IsChat(event.frame) /\ ~ValidChat(event.socket, event.frame)
     \/ hist[event.socket].frames > MAX_COUNT

\* C16: every payload sent is a 'users', a 'chat' or a 'system' payload, and
\* a rejected frame is answered with no payload to anyone.
C16_NoErrorChannel ==
  /\ \A i \in 1..Len(sent) : sent[i].payload.type \in {"users", "chat", "system"}
  /\ Rejected => sent = <<>>

\* A joined socket's good chat came after the 30th frame of its window
\* and the sender, which is open, was sent nothing.
C16_Witness ==
  /\ LastChat
  /\ ValidChat(event.socket, event.frame)
  /\ hist[event.socket].frames > MAX_COUNT
  /\ readyState[event.socket] = OPEN
  /\ SendsTo("chat", event.socket) = {}
  /\ sent = <<>>

(* --------------------------------- C17 -------------------------------- *)

\* C17: a frame of a socket whose window started more than 10000 ms ago
\* starts a new window (count 1, start now) and is handled, so a good chat
\* is broadcast whatever the old count was; a frame that comes 10000 ms or
\* less after the start is judged against the old window: the start stays,
\* the count grows by one below the cap, and at the cap the frame is dropped.
C17_ResetAfterWindow ==
  [][(event'.kind = "message" /\ event'.socket \in DOMAIN socketRateLimiterState)
       => LET c == event'.socket
              old == socketRateLimiterState[c]
              new == socketRateLimiterState'[c]
          IN  IF now - old.lastReset > WINDOW_MS
              THEN /\ new = [count |-> 1, lastReset |-> now]
                   /\ ValidChat(c, event'.frame) => HasChat(sent')
              ELSE /\ new.lastReset = old.lastReset
                   /\ IF old.count < MAX_COUNT
                      THEN new.count = old.count + 1
                      ELSE new.count = old.count /\ sent' = <<>>]_vars

\* A socket whose window opened at 0 sent more than 30 frames, some of them
\* chats broadcast at 10000 ms, and its chat at 10001 ms opened a new
\* window and was broadcast.
C17_Witness ==
  /\ LastChat
  /\ now = WINDOW_MS + 1
  /\ hist[event.socket].wasBlocked
  /\ recentChats[event.socket][WINDOW_MS] > 0
  /\ socketRateLimiterState[event.socket] = [count |-> 1, lastReset |-> now]
  /\ HasChat(sent)

(* --------------------------------- C18 -------------------------------- *)

\* C18: a frame that comes after the 30th of its window leaves the rate
\* limiter's state as it was, count and window start, and so the window
\* still ends 10000 ms after the frame that opened it.
C18_RejectionKeepsState ==
  [][(event'.kind = "message" /\ hist'[event'.socket].frames > MAX_COUNT)
       => /\ socketRateLimiterState' = socketRateLimiterState
          /\ socketRateLimiterState'[event'.socket].lastReset
               = hist'[event'.socket].start]_vars

\* Two frames were rejected in a window, the second later than the first
\* frame of the window, and count and window start are as they were.
C18_Witness ==
  /\ event.kind = "message"
  /\ hist[event.socket].frames > MAX_COUNT + 1
  /\ now > hist[event.socket].start
  /\ socketRateLimiterState[event.socket]
       = [count |-> MAX_COUNT, lastReset |-> hist[event.socket].start]
  /\ sent = <<>>

(* --------------------------------- C19 -------------------------------- *)

\* C19: a join frame of a socket that holds an identity changes nothing in
\* the identity map and sends no 'users' and no 'system' payload.
C19_RejoinIgnored ==
  [][(event'.kind = "message" /\ IsJoin(event'.frame)
        /\ MapHas(connectedClientIdentityMap, event'.socket))
       => /\ connectedClientIdentityMap' = connectedClientIdentityMap
          /\ \A i \in 1..Len(sent') :
               sent'[i].payload.type \notin {"users", "system"}]_vars

(* --------------------------------- C20 -------------------------------- *)

\* C20: every 'users' payload has one entry for each socket that holds an
\* identity at the broadcast, the sockets taken in the order in which they
\* got their identity, each entry the name the socket holds; a name that two
\* sockets hold appears twice.
C20_RosterIsRegistry ==
  \A i \in Sends("users") :
    LET users == sent[i].payload.users IN
    /\ Len(users) = Cardinality({c \in Conns : Holds(c)})
    /\ Len(users) = Len(attached)
    /\ \A k \in 1..Len(users) :
         MapGet(connectedClientIdentityMap, attached[k]) = JsString(users[k])

\* Socket 1 joined as "al", socket 2 as "bo", socket 1 closed: the last
\* roster socket 1 got is "al", "bo", and socket 2 is sent "bo".
C20_Witness ==
  /\ event = [kind |-> "close", socket |-> 1]
  /\ lastUsers[1] = [has |-> TRUE, users |-> <<Text_al, Text_bo>>]
  /\ \E i \in SendsTo("users", 2) : sent[i].payload.users = <<Text_bo>>

(* --------------------------------- C21 -------------------------------- *)

\* C21: every payload goes to a socket that is open at the send, never to
\* one that is not accepted yet, closing or closed; and a broadcast reaches
\* every open socket, whatever the state of the other sockets of the set.
C21_OnlyOpenReceive ==
  /\ \A i \in 1..Len(sent) : readyState[sent[i].to] = OPEN
  /\ sent # <<>> =>
       \A c \in Conns : readyState[c] = OPEN => \E i \in 1..Len(sent) : sent[i].to = c

\* A broadcast passed over a closing socket of the client set and reached
\* an open socket that comes after it in the set.
C21_Witness ==
  \E i, j \in 1..Len(clients) :
    /\ i < j
    /\ readyState[clients[i]] = CLOSING
    /\ readyState[clients[j]] = OPEN
    /\ \E k \in 1..Len(sent) : sent[k].to = clients[j]
    /\ \A k \in 1..Len(sent) : sent[k].to # clients[i]

(* --------------------------------- C22 -------------------------------- *)

\* C22: the 'close' and the 'error' event of a socket that holds no
\* identity, and so of every socket that never held one, send nothing.
C22_NoRosterWithoutChange ==
  [][(event'.kind \in {"close", "error"}
        /\ ~MapHas(connectedClientIdentityMap, event'.socket))
       => sent' = <<>>]_vars

\* A socket that was never sent a roster, and so never joined, closed while
\* a joined socket was open, and nothing was sent.
C22_Witness ==
  /\ event.kind = "close"
  /\ ~lastUsers[event.socket].has
  /\ \E c \in Conns : c # event.socket /\ readyState[c] = OPEN /\ Holds(c)
  /\ sent = <<>>

(* --------------------------------- C23 -------------------------------- *)

\* A text with nothing left: no string, or empty once trimmed and stripped
\* of '<' and '>'.
NothingLeft(text) ==
  IF text.t = "string" THEN ReplaceAngles(Trim(text.v)) = <<>> ELSE TRUE

\* Texts with nothing left: absent, a number, empty, blank, angle brackets.
EmptyTexts ==
  { JsUndefined, JsNumber(7), JsString(<<>>), JsString(<<" ", "\t", " ">>),
    JsString(<<"<", ">">>), JsString(<<">", ">", "<">>),
    JsString(<<" ", "<", ">", " ">>) }

\* C23: a chat with nothing left of its text puts no 'chat' payload on any
\* socket, and in every state the handler sends nothing and leaves the
\* identity map as it is for every such chat of every joined open socket.
C23_EmptyChatRejected ==
  /\ (LastChat /\ NothingLeft(event.frame.message)) => Sends("chat") = {}
  /\ \A c \in Conns, text \in EmptyTexts :
       (readyState[c] = OPEN /\ Holds(c) /\ ~crashed)
       => /\ NothingLeft(text)
          /\ OnMessage(c, ChatFrame(JsUndefined, text), "u1").identity
               = connectedClientIdentityMap
          /\ OnMessage(c, ChatFrame(JsUndefined, text), "u1").sent = <<>>

\* A joined socket sent the chat " <> " while it was open: nothing was sent.
C23_Witness ==
  /\ LastChat
  /\ Holds(event.socket)
  /\ readyState[event.socket] = OPEN
  /\ event.frame.message.t = "string" /\ event.frame.message.v # <<>>
  /\ NothingLeft(event.frame.message)
  /\ sent = <<>>

(* --------------------------------- C24 -------------------------------- *)

\* C24: no history is replayed. A socket has been sent at most the chats
\* accepted since it connected, an open socket exactly those, a socket that
\* never connected none; the chat of the last handler went only to sockets
\* open before it; and neither the connection handler nor a join of an open
\* socket sends a 'chat' payload.
C24_NoReplay ==
  /\ \A c \in Conns :
       /\ journal.heard[c] <= journal.accepted - journal.openedAt[c]
       /\ readyState[c] = NOSOCKET => journal.heard[c] = 0
       /\ (readyState[c] = OPEN /\ ~crashed)
            => journal.heard[c] = journal.accepted - journal.openedAt[c]
       /\ ~HasChat(OnConnection(c))
       /\ (readyState[c] = OPEN /\ ~crashed)
            => \A name \in RawNames :
                 ~HasChat(OnMessage(c, JoinFrame(name), "u1").sent)
  /\ \A i \in Sends("chat") :
       /\ event.kind = "message"
       /\ readyState[sent[i].to] = OPEN

\* A socket connected after a chat had been accepted, joined, and has been
\* sent no chat.
C24_Witness ==
  \E c \in Conns :
    /\ readyState[c] = OPEN
    /\ Holds(c)
    /\ journal.openedAt[c] > 0
    /\ journal.heard[c] = 0
    /\ journal.accepted = journal.openedAt[c]

(* --------------------------------- C25 -------------------------------- *)

\* C25: two payloads that two sockets were both sent reached both in the
\* same order, and the chats that one socket submitted reached every socket
\* in the order of their handlers.
C25_SameOrder ==
  journal.inbox # <<>> =>
    /\ \A c, d \in Conns :
         c < d =>
           \A i, j \in DOMAIN journal.inbox[c] :
             i < j =>
               \A k, l \in DOMAIN journal.inbox[d] :
                 ( /\ journal.inbox[c][i] = journal.inbox[d][k]
                   /\ journal.inbox[c][j] = journal.inbox[d][l] ) => k < l
    /\ \A c \in Conns :
         \A i, j \in DOMAIN journal.inbox[c] :
           ( /\ i < j
             /\ journal.inbox[c][i].payload.type = "chat"
             /\ journal.inbox[c][j].payload.type = "chat"
             /\ journal.inbox[c][i].from = journal.inbox[c][j].from )
           => journal.inbox[c][i].n < journal.inbox[c][j].n

\* Two sockets were both sent a roster, a notice and two chats of one sender.
C25_Witness ==
  /\ journal.inbox # <<>>
  /\ \E c, d \in Conns :
       /\ c # d
       /\ \E i, j \in DOMAIN journal.inbox[c], k, l \in DOMAIN journal.inbox[d] :
            /\ i < j
            /\ journal.inbox[c][i].payload.type = "chat"
            /\ journal.inbox[c][j].payload.type = "chat"
            /\ journal.inbox[c][i].from = journal.inbox[c][j].from
            /\ journal.inbox[c][i] = journal.inbox[d][k]
            /\ journal.inbox[c][j] = journal.inbox[d][l]
       /\ \E i \in DOMAIN journal.inbox[c], k \in DOMAIN journal.inbox[d] :
            /\ journal.inbox[c][i].payload.type = "users"
            /\ journal.inbox[c][i] = journal.inbox[d][k]
       /\ \E i \in DOMAIN journal.inbox[c], k \in DOMAIN journal.inbox[d] :
            /\ journal.inbox[c][i].payload.type = "system"
            /\ journal.inbox[c][i] = journal.inbox[d][k]

(* --------------------------------- C26 -------------------------------- *)

\* The two removal handlers, by name, on given maps; at the second handler
\* of a socket ws has already taken it out of the open sockets.
Removal(kind, identity, limiter, socket, rs, cl) ==
  IF kind = "close"
  THEN OnCloseOf(identity, limiter, socket, rs, cl)
  ELSE OnErrorOf(identity, limiter, socket)

Gone(socket) == [readyState EXCEPT ![socket] = CLOSED]

Others(socket) == SelectSeq(clients, LAMBDA c : c # socket)

RostersTo(c, sends) ==
  Cardinality({i \in 1..Len(sends) :
                 sends[i].to = c /\ sends[i].payload.type = "users"})

NoticesTo(c, sends) ==
  Cardinality({i \in 1..Len(sends) :
                 sends[i].to = c /\ sends[i].payload.type = "system"})

\* C26: in every state and for every socket, 'close' and 'error' in either
\* order, or one of them twice, leave the identity map and the rate-limit
\* map as one 'close' and as one 'error' leave them, the second handler
\* sends nothing, and no socket is sent more than one roster or more than
\* one notice; a socket whose handlers have run holds no entry, and its
\* second handler sent nothing.
C26_RemovalIdempotent ==
  /\ \A c \in Conns :
       journal.removals[c] >= 1
       => /\ ~Holds(c)
          /\ c \notin DOMAIN socketRateLimiterState
  /\ (event.kind \in {"close", "error"} /\ journal.removals[event.socket] >= 2)
       => sent = <<>>
  /\ \A c \in Conns, first \in {"close", "error"}, second \in {"close", "error"} :
       LET one == Removal(first, connectedClientIdentityMap,
                          socketRateLimiterState, c, Gone(c), Others(c))
           two == Removal(second, one.identity, one.limiter, c, Gone(c), Others(c))
           single == OnCloseOf(connectedClientIdentityMap,
                               socketRateLimiterState, c, Gone(c), Others(c))
       IN  /\ two.identity = single.identity
           /\ two.limiter = single.limiter
           /\ two.identity = one.identity
           /\ two.limiter = one.limiter
           /\ two.sent = <<>>
           /\ \A d \in Conns :
                /\ RostersTo(d, one.sent \o two.sent) <= 1
                /\ NoticesTo(d, one.sent \o two.sent) <= 1

\* Both handlers of a joined socket have run while another socket was open:
\* that socket was sent nothing, and its last roster still lists the name.
C26_Witness ==
  /\ event.kind = "close"
  /\ journal.removals[event.socket] = 2
  /\ \E d \in Conns :
       /\ readyState[d] = OPEN
       /\ lastUsers[d].has
       /\ Len(lastUsers[d].users) > Len(connectedClientIdentityMap)

(* --------------------------------- C27 -------------------------------- *)

\* Every chat the user dispatched has been accepted by the server, and its
\* echo handled by the component.
AllEchoed ==
  /\ client.dispatched > 0
  /\ journal.accepted = client.dispatched
  /\ client.received = client.dispatched
  /\ client.up = <<>>
  /\ client.down = <<>>

Pending ==
  {i \in 1..Len(client.chatMessageHistory) : client.chatMessageHistory[i].pending}

Queued == {client.messageQueueBeforeConnectionOpen[i].n :
             i \in 1..Len(client.messageQueueBeforeConnectionOpen)}

SentBy(how) == {client.wire[i].n : i \in {j \in 1..Len(client.wire) :
                                           client.wire[j].how = how}}

\* C28: a payload emitted while the WebSocket was CONNECTING was not sent
\* by that call: it is on the queue or was sent by the flush at onopen; the
\* queue is empty while the WebSocket is open; what was sent on one
\* WebSocket was sent in the order of emission, the flushed payloads before
\* the ones sent directly; a payload emitted while open was sent by that
\* call; a payload emitted with no WebSocket, or a closing or closed one,
\* is neither sent nor queued.
C28_QueueUntilOpen ==
  /\ \A i \in 1..Len(client.emits) :
       LET e == client.emits[i] IN
       /\ e.state = CONNECTING
            => /\ e.n \notin SentBy("direct")
               /\ (e.n \in Queued) # (e.n \in SentBy("flush"))
       /\ e.state = OPEN
            => e.n \in SentBy("direct") /\ e.n \notin Queued
       /\ e.state \notin {CONNECTING, OPEN}
            => /\ e.n \notin Queued
               /\ e.n \notin SentBy("direct") \cup SentBy("flush")
  /\ (client.webSocketInstance # 0 /\ client.socketState = OPEN)
       => client.messageQueueBeforeConnectionOpen = <<>>
  /\ \A i, j \in 1..Len(client.wire) :
       (i < j /\ client.wire[i].sentOn = client.wire[j].sentOn)
       => /\ client.wire[i].n < client.wire[j].n
          /\ client.wire[j].how = "flush" => client.wire[i].how = "flush"

\* A payload was dropped, two were queued and sent at onopen, and one was
\* emitted and sent after that.
C28_Witness ==
  /\ \E i \in 1..Len(client.emits) :
       client.emits[i].state \notin {CONNECTING, OPEN}
  /\ \E i, j, k \in 1..Len(client.wire) :
       /\ i < j /\ j < k
       /\ client.wire[i].how = "flush"
       /\ client.wire[j].how = "flush"
       /\ client.wire[k].how = "direct"
       /\ client.wire[i].sentOn = client.wire[k].sentOn
       /\ client.wire[j].sentOn = client.wire[k].sentOn

(* --------------------------------- C29 -------------------------------- *)

\* C29: every payload sent on a WebSocket was emitted while that WebSocket
\* was the service's webSocketInstance.
C29_SentWhereEmitted ==
  \A i \in 1..Len(client.wire) :
    client.wire[i].sentOn = client.wire[i].emittedOn

(* --------------------------------- C30 -------------------------------- *)

\* The component's flag is set, the join went out on the WebSocket that is
\* still open, and the server has handled it.
JoinedOverOpen ==
  /\ client.isUserJoinedToConversation
  /\ client.webSocketInstance # 0
  /\ client.joinSent = client.webSocketInstance
  /\ client.socketState = OPEN
  /\ \A i \in 1..Len(client.up) : ~IsJoin(client.up[i].frame)

\* C30: when the client has set its flag after sending a join over the
\* open connection, the server holds for that connection the name the
\* client uses for itself.
C30_JoinedAgreed ==
  JoinedOverOpen
  => MapGet(connectedClientIdentityMap, client.peer)
       = JsString(currentAuthenticatedUsername(client))

(* --------------------------------- C31 -------------------------------- *)

Trimmed(text) == Trim(text) = text

Blank(text) == text # <<>> /\ Trim(text) = <<>>

\* Texts whose angle brackets stand between the edge and whitespace, or
\* whose 1000th character is a blank.
EdgeTexts ==
  { JsString(<<"<", " ", "a">>), JsString(<<"a", " ", ">">>),
    JsString(<<"<", " ", ">">>), JsString(<<"<", " ", " ", ">">>),
    JsString(Repeat("x", MAX_LENGTH - 1) \o <<" ", "y">>),
    JsString(Text_al), JsString(<<" ", "<", "b", "o", ">", " ">>) }

\* C31: every stored identity and every broadcast chat message is trimmed,
\* and for every text sanitizeString gives a trimmed text that it maps to
\* itself, and no open socket gets a blank name stored or a blank message
\* broadcast.
C31_SanitizedIsTrimmed ==
  /\ \A i \in 1..Len(connectedClientIdentityMap) :
       Trimmed(connectedClientIdentityMap[i].name)
  /\ \A i \in Sends("chat") : Trimmed(sent[i].payload.message)
  /\ \A text \in EdgeTexts :
       /\ Trimmed(sanitizeString(text))
       /\ sanitizeString(JsString(sanitizeString(text))) = sanitizeString(text)
       /\ \A c \in Conns :
            (readyState[c] = OPEN /\ ~crashed)
            => LET joined == OnMessage(c, JoinFrame(text), "u1")
                   chatted == OnMessage(c, ChatFrame(JsUndefined, text), "u1")
               IN  /\ \A i \in 1..Len(joined.identity) :
                        ~Blank(joined.identity[i].name)
                   /\ \A i \in 1..Len(chatted.sent) :
                        chatted.sent[i].payload.type = "chat"
                        => ~Blank(chatted.sent[i].payload.message)

(* --------------------------------- C32 -------------------------------- *)

\* The sockets whose transport has not closed.
Live == {c \in Conns : readyState[c] \in {OPEN, CLOSING}}

\* C32: the identity map and the rate-limit map hold entries only for
\* sockets whose transport has not closed; a socket that never connected
\* or whose 'close' event has been handled has an entry in neither.
C32_NoEntryOnceClosed ==
  /\ \A i \in 1..Len(connectedClientIdentityMap) :
       connectedClientIdentityMap[i].socket \in Live
  /\ DOMAIN socketRateLimiterState \subseteq Live
  /\ \A c \in Conns :
       (readyState[c] = CLOSED \/ journal.removals[c] >= 1)
       => ~Holds(c) /\ c \notin DOMAIN socketRateLimiterState

\* The 'close' handler of a socket that held a name has run, while another
\* socket keeps its entries in both maps.
C32_Witness ==
  /\ event.kind = "close"
  /\ readyState[event.socket] = CLOSED
  /\ sent # <<>>
  /\ \E d \in Live : Holds(d) /\ d \in DOMAIN socketRateLimiterState

(* --------------------------------- C33 -------------------------------- *)

\* C33: every rate-limit entry has a count from 1 to 30 and a window start
\* not later than now, and every socket in the identity map has a
\* rate-limit entry.
C33_LimiterEntriesSound ==
  /\ \A c \in DOMAIN socketRateLimiterState :
       /\ 1 <= socketRateLimiterState[c].count
       /\ socketRateLimiterState[c].count <= MAX_COUNT
       /\ socketRateLimiterState[c].lastReset <= now
  /\ \A i \in 1..Len(connectedClientIdentityMap) :
       connectedClientIdentityMap[i].socket \in DOMAIN socketRateLimiterState

\* A joined socket whose count stands at 30 after a frame was turned away,
\* in a window that started before now.
C33_Witness ==
  \E c \in DOMAIN socketRateLimiterState :
    /\ Holds(c)
    /\ socketRateLimiterState[c].count = MAX_COUNT
    /\ socketRateLimiterState[c].lastReset < now
    /\ event.kind = "message"
    /\ event.socket = c
    /\ hist[c].frames > MAX_COUNT

====
